---- MODULE Spec2Model ----
(***************************************************************************)
(* Model of ChipSelect.h (DmaSpi): the chip select classes that pair the   *)
(* level of a chip select pin with the lifetime of an SPI transaction.     *)
(*                                                                         *)
(* The hardware the classes drive is the state: the level and direction of *)
(* each pin (pinMode, digitalWriteFast), and for each SPI controller       *)
(* whether a transaction is open and which settings the last               *)
(* beginTransaction applied.  The objects hold only pin_ and settings_.    *)
(* select() and deselect() are modelled statement by statement, so that    *)
(* the states between the two hardware accesses of a call are states of    *)
(* the model.  The program is single threaded: one call runs at a time.    *)
(***************************************************************************)
EXTENDS Integers, Sequences, FiniteSets, TLC

VARIABLES
    level,      \* level[p]: logic level of pin p (0 low, 1 high)
    mode,       \* mode[p]: direction of pin p
    txnOpen,    \* txnOpen[c]: controller c is inside a transaction
    applied,    \* applied[c]: settings given to the last beginTransaction on c
    nBegin,     \* nBegin[c]: number of beginTransaction calls on c so far
    nEnd,       \* nEnd[c]: number of endTransaction calls on c so far
    nWrite,     \* nWrite[p]: number of digitalWriteFast calls on pin p so far
    pin_,       \* pin_[d]: const member pin_ of the constructed object d
    settings_,  \* settings_[d]: const member settings_ of the constructed object d
    serial,     \* lines printed through Serial
    pc,         \* the call in progress and the statement it is about to run
    hist        \* the calls made so far, each with the state at its entry

vars == <<level, mode, txnOpen, applied, nBegin, nEnd, nWrite, pin_, settings_, serial, pc, hist>>

hw == <<level, mode, txnOpen, applied, nBegin, nEnd, nWrite>>

----------------------------------------------------------------------------
(* Bounds and domains *)

\* the caller makes at most MaxCalls select/deselect calls in a run
MaxCalls == 4

\* in the runs with two objects the caller makes at most MaxCallsTwo calls
MaxCallsTwo == 3

Pins == {9, 10}

Settings == {"4MHz_MSB_MODE0", "1MHz_LSB_MODE3"}

Controllers == {"SPI", "SPI1"}

TransferType == {"NORMAL", "NO_START_CS", "NO_END_CS"}

\* the objects a program may construct, by class
ActiveLowDevices == {"cs", "cs_b"}

ActiveLow1Devices == {"cs1"}

\* objects of the classes without constructor code exist from the start
DummyDevices == {"dummy"}

DebugDevices == {"debug"}

Idle == [dev |-> "none", op |-> "none", t |-> "NORMAL", at |-> "idle"]

----------------------------------------------------------------------------
(* The collaborators: pin primitives and the SPI controllers *)

pinMode(m, p, dir) == [m EXCEPT ![p] = dir]

digitalWriteFast(l, p, v) == [l EXCEPT ![p] = v]

\* the count of digitalWriteFast calls after one more call on pin p
written(p) == [nWrite EXCEPT ![p] = @ + 1]

beginTransaction(c, s) ==
    /\ txnOpen' = [txnOpen EXCEPT ![c] = TRUE]
    /\ applied' = [applied EXCEPT ![c] = s]
    /\ nBegin' = [nBegin EXCEPT ![c] = @ + 1]
    /\ UNCHANGED nEnd

endTransaction(c) ==
    /\ txnOpen' = [txnOpen EXCEPT ![c] = FALSE]
    /\ nEnd' = [nEnd EXCEPT ![c] = @ + 1]
    /\ UNCHANGED <<applied, nBegin>>

----------------------------------------------------------------------------
(* Initial state: nothing constructed, pins as the hardware left them *)

Init ==
    /\ level \in [Pins -> {0, 1}]
    /\ mode = [p \in Pins |-> "INPUT"]
    /\ txnOpen = [c \in Controllers |-> FALSE]
    /\ applied = [c \in Controllers |-> "none"]
    /\ nBegin = [c \in Controllers |-> 0]
    /\ nEnd = [c \in Controllers |-> 0]
    /\ nWrite = [p \in Pins |-> 0]
    /\ pin_ = <<>>
    /\ settings_ = <<>>
    /\ serial = <<>>
    /\ pc = Idle
    /\ hist = <<>>

----------------------------------------------------------------------------
(* The caller *)

\* a call of d.select(t) or d.deselect(t) through AbstractChipSelect
Call(d, op, t, max) ==
    /\ pc = Idle
    /\ d \in DOMAIN pin_ \cup DummyDevices \cup DebugDevices
    /\ Len(hist) < max
    /\ pc' = [dev |-> d, op |-> op, t |-> t, at |-> "entry"]
    /\ hist' = Append(hist, [dev |-> d, op |-> op, t |-> t,
                             level |-> level, open |-> txnOpen,
                             mode |-> mode, applied |-> applied,
                             nBegin |-> nBegin, nEnd |-> nEnd,
                             nWrite |-> nWrite,
                             pin_ |-> pin_, settings_ |-> settings_,
                             serial |-> serial])
    /\ UNCHANGED <<hw, pin_, settings_, serial>>

----------------------------------------------------------------------------
(* class ActiveLowChipSelect (bound to SPI) *)

\* the controller the class is hardcoded to
Bus == "SPI"

InactiveLevel == 1

\* faulty variant: select() writes the inactive level
ActiveLevel_inactive == InactiveLevel

ActiveLevel == 0

\* faulty variant: deselect() writes the active level
DeselectLevel_active == ActiveLevel

DeselectLevel == 1

ActiveLowChipSelect(d, pin, settings) ==
    /\ pc = Idle
    /\ d \in ActiveLowDevices
    /\ d \notin DOMAIN pin_
    /\ pin_' = (d :> pin) @@ pin_
    /\ settings_' = (d :> settings) @@ settings_
    /\ mode' = pinMode(mode, pin, "OUTPUT")
    /\ level' = digitalWriteFast(level, pin, InactiveLevel)
    /\ nWrite' = written(pin)
    /\ UNCHANGED <<txnOpen, applied, nBegin, nEnd, serial, pc, hist>>

\* faulty variant: select() never skips the line write
SkipStartCS_never(t) == FALSE

\* faulty variant: select() skips the line write for every policy but NORMAL
SkipStartCS_any(t) == t # "NORMAL"

SkipStartCS(t) == t = "NO_START_CS"

\* faulty variant: deselect() never skips the line write
SkipEndCS_never(t) == FALSE

\* faulty variant: deselect() tests for the wrong enumerator
SkipEndCS_swapped(t) == t = "NO_START_CS"

SkipEndCS(t) == t = "NO_END_CS"

InSelect(at) ==
    /\ pc.dev \in ActiveLowDevices
    /\ pc.op = "select"
    /\ pc.at = at

InDeselect(at) ==
    /\ pc.dev \in ActiveLowDevices
    /\ pc.op = "deselect"
    /\ pc.at = at

\* faulty variant: the NO_START_CS return placed before beginTransaction
select_begin_return_first ==
    /\ InSelect("entry")
    /\ IF SkipStartCS(pc.t)
          THEN pc' = Idle /\ UNCHANGED <<txnOpen, applied, nBegin, nEnd>>
          ELSE beginTransaction(Bus, settings_[pc.dev])
                 /\ pc' = [pc EXCEPT !.at = "write"]
    /\ UNCHANGED <<level, mode, nWrite, pin_, settings_, serial, hist>>

\* faulty variant: the line is driven low first and the transaction begun after it
select_begin_after_write ==
    \/ /\ InSelect("entry")
       /\ level' = IF SkipStartCS(pc.t) THEN level
                   ELSE digitalWriteFast(level, pin_[pc.dev], ActiveLevel)
       /\ nWrite' = IF SkipStartCS(pc.t) THEN nWrite ELSE written(pin_[pc.dev])
       /\ pc' = [pc EXCEPT !.at = "late_begin"]
       /\ UNCHANGED <<mode, txnOpen, applied, nBegin, nEnd, pin_, settings_, serial, hist>>
    \/ /\ InSelect("late_begin")
       /\ beginTransaction(Bus, settings_[pc.dev])
       /\ pc' = Idle
       /\ UNCHANGED <<level, mode, nWrite, pin_, settings_, serial, hist>>

\* faulty variant: select() refuses to run while a transaction is open
select_begin_guarded ==
    /\ InSelect("entry")
    /\ ~txnOpen[Bus]
    /\ beginTransaction(Bus, settings_[pc.dev])
    /\ pc' = IF SkipStartCS(pc.t) THEN Idle ELSE [pc EXCEPT !.at = "write"]
    /\ UNCHANGED <<level, mode, nWrite, pin_, settings_, serial, hist>>

\* SPI.beginTransaction(settings_); if (NO_START_CS) return;
select_begin ==
    /\ InSelect("entry")
    /\ beginTransaction(Bus, settings_[pc.dev])
    /\ pc' = IF SkipStartCS(pc.t) THEN Idle ELSE [pc EXCEPT !.at = "write"]
    /\ UNCHANGED <<level, mode, nWrite, pin_, settings_, serial, hist>>

\* faulty variant: pin_ shared by all objects of the class (a static member)
select_write_shared_pin ==
    /\ InSelect("write")
    /\ LET shared == pin_[CHOOSE d \in DOMAIN pin_ : TRUE]
       IN  /\ level' = digitalWriteFast(level, shared, ActiveLevel)
           /\ nWrite' = written(shared)
    /\ pc' = Idle
    /\ UNCHANGED <<mode, txnOpen, applied, nBegin, nEnd, pin_, settings_, serial, hist>>

\* digitalWriteFast(pin_, 0);
select_write ==
    /\ InSelect("write")
    /\ level' = digitalWriteFast(level, pin_[pc.dev], ActiveLevel)
    /\ nWrite' = written(pin_[pc.dev])
    /\ pc' = Idle
    /\ UNCHANGED <<mode, txnOpen, applied, nBegin, nEnd, pin_, settings_, serial, hist>>

\* faulty variant: deselect() releases the pin (input mode) after driving it high
deselect_write_releases ==
    /\ InDeselect("entry")
    /\ level' = IF SkipEndCS(pc.t) THEN level
                ELSE digitalWriteFast(level, pin_[pc.dev], DeselectLevel)
    /\ nWrite' = IF SkipEndCS(pc.t) THEN nWrite ELSE written(pin_[pc.dev])
    /\ mode' = IF SkipEndCS(pc.t) THEN mode ELSE pinMode(mode, pin_[pc.dev], "INPUT")
    /\ pc' = [pc EXCEPT !.at = "end"]
    /\ UNCHANGED <<txnOpen, applied, nBegin, nEnd, pin_, settings_, serial, hist>>

\* if (NO_END_CS) {} else { digitalWriteFast(pin_, 1); }
deselect_write ==
    /\ InDeselect("entry")
    /\ level' = IF SkipEndCS(pc.t) THEN level
                ELSE digitalWriteFast(level, pin_[pc.dev], DeselectLevel)
    /\ nWrite' = IF SkipEndCS(pc.t) THEN nWrite ELSE written(pin_[pc.dev])
    /\ pc' = [pc EXCEPT !.at = "end"]
    /\ UNCHANGED <<mode, txnOpen, applied, nBegin, nEnd, pin_, settings_, serial, hist>>

\* faulty variant: deselect() returns without endTransaction
deselect_end_missing ==
    /\ InDeselect("end")
    /\ pc' = Idle
    /\ UNCHANGED <<hw, pin_, settings_, serial, hist>>

\* faulty variant: deselect() keeps a nesting count and ends only the outermost
deselect_end_counted ==
    /\ InDeselect("end")
    /\ IF nBegin[Bus] - nEnd[Bus] > 1
          THEN /\ nEnd' = [nEnd EXCEPT ![Bus] = @ + 1]
               /\ UNCHANGED <<txnOpen, applied, nBegin>>
          ELSE endTransaction(Bus)
    /\ pc' = Idle
    /\ UNCHANGED <<level, mode, nWrite, pin_, settings_, serial, hist>>

\* SPI.endTransaction();
deselect_end ==
    /\ InDeselect("end")
    /\ endTransaction(Bus)
    /\ pc' = Idle
    /\ UNCHANGED <<level, mode, nWrite, pin_, settings_, serial, hist>>

----------------------------------------------------------------------------
(* A program with one ActiveLowChipSelect object, cs *)

Next ==
    \/ \E p \in Pins, s \in Settings : ActiveLowChipSelect("cs", p, s)
    \/ \E t \in TransferType : Call("cs", "select", t, MaxCalls)
    \/ \E t \in TransferType : Call("cs", "deselect", t, MaxCalls)
    \/ select_begin
    \/ select_write
    \/ deselect_write
    \/ deselect_end

Spec == Init /\ [][Next]_vars

----------------------------------------------------------------------------
(* class ActiveLowChipSelect1 (bound to SPI1; built for __MK66FX1M0__ only) *)

\* faulty variant: the copy of the class still names the first controller
Bus1_copied == Bus

\* the controller the class is hardcoded to
Bus1 == "SPI1"

InactiveLevel1 == 1

ActiveLevel1 == 0

DeselectLevel1 == 1

ActiveLowChipSelect1(d, pin, settings) ==
    /\ pc = Idle
    /\ d \in ActiveLow1Devices
    /\ d \notin DOMAIN pin_
    /\ pin_' = (d :> pin) @@ pin_
    /\ settings_' = (d :> settings) @@ settings_
    /\ mode' = pinMode(mode, pin, "OUTPUT")
    /\ level' = digitalWriteFast(level, pin, InactiveLevel1)
    /\ nWrite' = written(pin)
    /\ UNCHANGED <<txnOpen, applied, nBegin, nEnd, serial, pc, hist>>

\* faulty variant: the copy of select() tests for the wrong enumerator
SkipStartCS1_wrong(t) == t = "NO_END_CS"

SkipStartCS1(t) == t = "NO_START_CS"

SkipEndCS1(t) == t = "NO_END_CS"

InSelect1(at) ==
    /\ pc.dev \in ActiveLow1Devices
    /\ pc.op = "select"
    /\ pc.at = at

InDeselect1(at) ==
    /\ pc.dev \in ActiveLow1Devices
    /\ pc.op = "deselect"
    /\ pc.at = at

\* SPI1.beginTransaction(settings_); if (NO_START_CS) return;
select1_begin ==
    /\ InSelect1("entry")
    /\ beginTransaction(Bus1, settings_[pc.dev])
    /\ pc' = IF SkipStartCS1(pc.t) THEN Idle ELSE [pc EXCEPT !.at = "write"]
    /\ UNCHANGED <<level, mode, nWrite, pin_, settings_, serial, hist>>

\* digitalWriteFast(pin_, 0);
select1_write ==
    /\ InSelect1("write")
    /\ level' = digitalWriteFast(level, pin_[pc.dev], ActiveLevel1)
    /\ nWrite' = written(pin_[pc.dev])
    /\ pc' = Idle
    /\ UNCHANGED <<mode, txnOpen, applied, nBegin, nEnd, pin_, settings_, serial, hist>>

\* if (NO_END_CS) {} else { digitalWriteFast(pin_, 1); }
deselect1_write ==
    /\ InDeselect1("entry")
    /\ level' = IF SkipEndCS1(pc.t) THEN level
                ELSE digitalWriteFast(level, pin_[pc.dev], DeselectLevel1)
    /\ nWrite' = IF SkipEndCS1(pc.t) THEN nWrite ELSE written(pin_[pc.dev])
    /\ pc' = [pc EXCEPT !.at = "end"]
    /\ UNCHANGED <<mode, txnOpen, applied, nBegin, nEnd, pin_, settings_, serial, hist>>

\* SPI1.endTransaction();
deselect1_end ==
    /\ InDeselect1("end")
    /\ endTransaction(Bus1)
    /\ pc' = Idle
    /\ UNCHANGED <<level, mode, nWrite, pin_, settings_, serial, hist>>

----------------------------------------------------------------------------
(* A program with an ActiveLowChipSelect cs and an ActiveLowChipSelect1 cs1 *)

NextTwoControllers ==
    \/ \E p \in Pins, s \in Settings : ActiveLowChipSelect("cs", p, s)
    \/ \E p \in Pins, s \in Settings : ActiveLowChipSelect1("cs1", p, s)
    \/ \E d \in {"cs", "cs1"}, t \in TransferType : Call(d, "select", t, MaxCallsTwo)
    \/ \E d \in {"cs", "cs1"}, t \in TransferType : Call(d, "deselect", t, MaxCallsTwo)
    \/ select_begin
    \/ select_write
    \/ deselect_write
    \/ deselect_end
    \/ select1_begin
    \/ select1_write
    \/ deselect1_write
    \/ deselect1_end

SpecTwoControllers == Init /\ [][NextTwoControllers]_vars

----------------------------------------------------------------------------
(* class DummyChipSelect and class DebugChipSelect *)

\* faulty variant: the body of DebugChipSelect::select in the dummy class
DummyChipSelect_select_prints ==
    /\ pc.dev \in DummyDevices
    /\ pc.op = "select"
    /\ pc.at = "entry"
    /\ serial' = Append(serial, "Debug CS: select()")
    /\ pc' = Idle
    /\ UNCHANGED <<hw, pin_, settings_, hist>>

\* void select(TransferType) override {}
DummyChipSelect_select ==
    /\ pc.dev \in DummyDevices
    /\ pc.op = "select"
    /\ pc.at = "entry"
    /\ pc' = Idle
    /\ UNCHANGED <<hw, pin_, settings_, serial, hist>>

\* void deselect(TransferType) override {}
DummyChipSelect_deselect ==
    /\ pc.dev \in DummyDevices
    /\ pc.op = "deselect"
    /\ pc.at = "entry"
    /\ pc' = Idle
    /\ UNCHANGED <<hw, pin_, settings_, serial, hist>>

println(out, line) == Append(out, line)

\* Serial.println("Debug CS: select()");
DebugChipSelect_select ==
    /\ pc.dev \in DebugDevices
    /\ pc.op = "select"
    /\ pc.at = "entry"
    /\ serial' = println(serial, "Debug CS: select()")
    /\ pc' = Idle
    /\ UNCHANGED <<hw, pin_, settings_, hist>>

\* faulty variant: deselect() prints the message copied from select()
DebugChipSelect_deselect_copied ==
    /\ pc.dev \in DebugDevices
    /\ pc.op = "deselect"
    /\ pc.at = "entry"
    /\ serial' = println(serial, "Debug CS: select()")
    /\ pc' = Idle
    /\ UNCHANGED <<hw, pin_, settings_, hist>>

\* Serial.println("Debug CS: deselect()");
DebugChipSelect_deselect ==
    /\ pc.dev \in DebugDevices
    /\ pc.op = "deselect"
    /\ pc.at = "entry"
    /\ serial' = println(serial, "Debug CS: deselect()")
    /\ pc' = Idle
    /\ UNCHANGED <<hw, pin_, settings_, hist>>

----------------------------------------------------------------------------
(* A program with a DummyChipSelect dummy and a DebugChipSelect debug *)

NextNoHardware ==
    \/ \E d \in {"dummy", "debug"}, t \in TransferType : Call(d, "select", t, MaxCallsTwo)
    \/ \E d \in {"dummy", "debug"}, t \in TransferType : Call(d, "deselect", t, MaxCallsTwo)
    \/ DummyChipSelect_select
    \/ DummyChipSelect_deselect
    \/ DebugChipSelect_select
    \/ DebugChipSelect_deselect

SpecNoHardware == Init /\ [][NextNoHardware]_vars

----------------------------------------------------------------------------
(* A program with two ActiveLowChipSelect objects, cs and cs_b *)

NextTwoLines ==
    \/ \E d \in {"cs", "cs_b"}, p \in Pins, s \in Settings : ActiveLowChipSelect(d, p, s)
    \/ \E d \in {"cs", "cs_b"}, t \in TransferType : Call(d, "select", t, MaxCallsTwo)
    \/ \E d \in {"cs", "cs_b"}, t \in TransferType : Call(d, "deselect", t, MaxCallsTwo)
    \/ select_begin
    \/ select_write
    \/ deselect_write
    \/ deselect_end

SpecTwoLines == Init /\ [][NextTwoLines]_vars

----------------------------------------------------------------------------
(* A program with an ActiveLowChipSelect, a DummyChipSelect and a          *)
(* DebugChipSelect                                                         *)

NextMixed ==
    \/ \E p \in Pins, s \in Settings : ActiveLowChipSelect("cs", p, s)
    \/ \E d \in {"cs", "dummy", "debug"}, t \in TransferType :
            Call(d, "select", t, MaxCallsTwo)
    \/ \E d \in {"cs", "dummy", "debug"}, t \in TransferType :
            Call(d, "deselect", t, MaxCallsTwo)
    \/ select_begin
    \/ select_write
    \/ deselect_write
    \/ deselect_end
    \/ DummyChipSelect_select
    \/ DummyChipSelect_deselect
    \/ DebugChipSelect_select
    \/ DebugChipSelect_deselect

SpecMixed == Init /\ [][NextMixed]_vars

----------------------------------------------------------------------------
(* A program that drives an ActiveLowChipSelect cs and an                  *)
(* ActiveLowChipSelect1 cs1 side by side: built one after the other with   *)
(* the same settings, and every call on cs is repeated on cs1              *)

\* at most MaxMirrored calls are made on each of the two objects
MaxMirrored == 3

CallMirrored(op, t) ==
    /\ DOMAIN pin_ = {"cs", "cs1"}
    /\ Len(hist) % 2 = 0
    /\ Call("cs", op, t, 2 * MaxMirrored)

CallMirror ==
    /\ Len(hist) % 2 = 1
    /\ Call("cs1", hist[Len(hist)].op, hist[Len(hist)].t, 2 * MaxMirrored)

NextSideBySide ==
    \/ \E p \in Pins, s \in Settings : ActiveLowChipSelect("cs", p, s)
    \/ \E p \in Pins :
            /\ "cs" \in DOMAIN pin_
            /\ ActiveLowChipSelect1("cs1", p, settings_["cs"])
    \/ \E t \in TransferType : CallMirrored("select", t)
    \/ \E t \in TransferType : CallMirrored("deselect", t)
    \/ CallMirror
    \/ select_begin
    \/ select_write
    \/ deselect_write
    \/ deselect_end
    \/ select1_begin
    \/ select1_write
    \/ deselect1_write
    \/ deselect1_end

SpecSideBySide == Init /\ [][NextSideBySide]_vars

----------------------------------------------------------------------------
(* Observations used by the properties: the object cs and its hardware *)

Built == "cs" \in DOMAIN pin_

\* level of the select line of cs
Line == level[pin_["cs"]]

\* the transaction on the controller of cs is open
Open == txnOpen["SPI"]

N == Len(hist)

Last == hist[N]

\* the calls made so far, without the recorded hardware state
Calls == [i \in 1..N |-> <<hist[i].op, hist[i].t>>]

SelN == <<"select", "NORMAL">>

DeselN == <<"deselect", "NORMAL">>

\* line level and transaction flag of cs at the entry of the i-th call
LineAt(i) == hist[i].level[pin_["cs"]]

OpenAt(i) == hist[i].open["SPI"]

\* the calls so far are select(NORMAL), deselect(NORMAL), select(NORMAL), ...
NormalPairs ==
    \A i \in 1..N : Calls[i] = IF i % 2 = 1 THEN SelN ELSE DeselN

\* the calls so far alternate select, deselect, select, ... with any policies
Alternating ==
    \A i \in 1..N : hist[i].op = IF i % 2 = 1 THEN "select" ELSE "deselect"

----------------------------------------------------------------------------
(* C1: with policy NORMAL, the line is high after construction; after      *)
(* select(NORMAL) it is low and the transaction is open; after the         *)
(* following deselect(NORMAL) it is high and the transaction is closed.    *)
C1_NormalSelectDeselect ==
    Built =>
        /\ N = 0 => Line = 1
        /\ (pc = Idle /\ Calls = <<SelN>>) => (Line = 0 /\ Open)
        /\ (pc = Idle /\ Calls = <<SelN, DeselN>>) => (Line = 1 /\ ~Open)

C1_Witness ==
    /\ Built
    /\ pc = Idle
    /\ Calls = <<SelN, DeselN>>
    /\ Line = 1
    /\ ~Open
    /\ LineAt(2) = 0
    /\ OpenAt(2)

(* C2: in select(NORMAL); deselect(NO_END_CS); select(NO_START_CS);        *)
(* deselect(NORMAL) the states after the calls are [low, open],            *)
(* [low, closed], [low, open], [high, closed], and the line is low in      *)
(* every state from the first select's line write until the last           *)
(* deselect's line write.                                                  *)
Chain ==
    << SelN, <<"deselect", "NO_END_CS">>, <<"select", "NO_START_CS">>, DeselN >>

ChainStates == << <<0, TRUE>>, <<0, FALSE>>, <<0, TRUE>>, <<1, FALSE>> >>

InChain ==
    /\ Built
    /\ N >= 1
    /\ N <= Len(Chain)
    /\ \A i \in 1..N : Calls[i] = Chain[i]

FirstWriteDone == ~(N = 1 /\ pc.at \in {"entry", "write"})

LastWriteDone == N = Len(Chain) /\ pc.at \in {"end", "idle"}

C2_ChainedTransfer ==
    InChain =>
        /\ pc = Idle => <<Line, Open>> = ChainStates[N]
        /\ (FirstWriteDone /\ ~LastWriteDone) => Line = 0

C2_Witness ==
    /\ InChain
    /\ N = Len(Chain)
    /\ pc = Idle
    /\ <<Line, Open>> = <<1, FALSE>>
    /\ LineAt(3) = 0
    /\ ~OpenAt(3)
    /\ LineAt(4) = 0
    /\ OpenAt(4)

(* C3: from every prior line level, select(NO_START_CS) opens the          *)
(* transaction and leaves the line level as it was before the call.        *)
C3_SelectNoStartCS ==
    (Built /\ N >= 1 /\ pc = Idle /\ Calls[N] = <<"select", "NO_START_CS">>) =>
        /\ Open
        /\ level = Last.level

C3_Witness ==
    /\ Built
    /\ N >= 2
    /\ pc = Idle
    /\ Calls[N] = <<"select", "NO_START_CS">>
    /\ Calls[N - 1] = <<"deselect", "NO_END_CS">>
    /\ LineAt(N) = 0
    /\ ~OpenAt(N)
    /\ Line = 0
    /\ Open

(* C4: from every prior line level, deselect(NO_END_CS) closes the         *)
(* transaction and leaves the line level as it was before the call.        *)
C4_DeselectNoEndCS ==
    (Built /\ N >= 1 /\ pc = Idle /\ Calls[N] = <<"deselect", "NO_END_CS">>) =>
        /\ ~Open
        /\ level = Last.level

C4_Witness ==
    /\ Built
    /\ N >= 1
    /\ pc = Idle
    /\ Calls[N] = <<"deselect", "NO_END_CS">>
    /\ LineAt(N) = 0
    /\ OpenAt(N)
    /\ Line = 0
    /\ ~Open

(* C5: select begins the transaction before it drives the line low, and    *)
(* deselect drives the line high before it ends the transaction; so in     *)
(* any sequence of select(NORMAL)/deselect(NORMAL) pairs, in every state,  *)
(* also between the hardware accesses of a call, line low implies          *)
(* transaction open.                                                       *)
C5_LineLowInsideTransaction ==
    Built =>
        /\ (pc.dev = "cs" /\ pc.op = "select" /\ pc.at = "write") => Open
        /\ (pc.dev = "cs" /\ pc.op = "deselect" /\ pc.at = "end"
                /\ pc.t # "NO_END_CS") => Line = 1
        /\ NormalPairs => (Line = 0 => Open)

C5_Witness ==
    /\ Built
    /\ NormalPairs
    /\ N = 2
    /\ pc.at = "end"
    /\ Line = 1
    /\ Open

(* C6: after select(NORMAL); deselect(NORMAL) repeated any number of times *)
(* on a freshly constructed object, line and transaction are as they were  *)
(* after construction: line high, transaction closed.                      *)
C6_RoundTrip ==
    (Built /\ NormalPairs /\ N % 2 = 0 /\ pc = Idle) =>
        /\ Line = 1
        /\ ~Open
        /\ N >= 1 => (Line = LineAt(1) /\ Open = OpenAt(1))

C6_Witness ==
    /\ Built
    /\ NormalPairs
    /\ N = 4
    /\ pc = Idle
    /\ Line = 1
    /\ ~Open

(* C7 as stated: select(p) then deselect(p) with the same policy p leaves  *)
(* line level and transaction flag as they were before the pair, and the   *)
(* line is low all the time between the two calls.                         *)
SamePolicyPair ==
    /\ N >= 2
    /\ hist[N - 1].op = "select"
    /\ hist[N].op = "deselect"
    /\ hist[N - 1].t = hist[N].t

\* select(p) has returned and the caller may now call deselect(p)
BetweenPair(p) ==
    \/ pc = Idle /\ N >= 1 /\ Calls[N] = <<"select", p>>
    \/ /\ pc.at = "entry"
       /\ N >= 2
       /\ Calls[N - 1] = <<"select", p>>
       /\ Calls[N] = <<"deselect", p>>

C7_SamePolicyPair ==
    Built =>
        /\ (pc = Idle /\ SamePolicyPair) =>
                (level = hist[N - 1].level /\ txnOpen = hist[N - 1].open)
        /\ \A p \in TransferType : BetweenPair(p) => Line = 0

(* C7 amended: select(NORMAL) then deselect(NORMAL), called when the line  *)
(* is high and no transaction is open, leaves line level and transaction   *)
(* flag as they were before the pair, and the line is low all the time     *)
(* between the two calls.                                                  *)
C7_NormalPair ==
    Built =>
        /\ (pc = Idle /\ SamePolicyPair /\ Last.t = "NORMAL"
                /\ LineAt(N - 1) = 1 /\ ~OpenAt(N - 1)) =>
                (level = hist[N - 1].level /\ txnOpen = hist[N - 1].open)
        /\ BetweenPair("NORMAL") => Line = 0

C7_Witness ==
    /\ Built
    /\ pc = Idle
    /\ SamePolicyPair
    /\ Last.t = "NORMAL"
    /\ N = 4
    /\ LineAt(N - 1) = 1
    /\ ~OpenAt(N - 1)
    /\ LineAt(N) = 0
    /\ OpenAt(N)
    /\ Line = 1
    /\ ~Open

(* C8 as stated: from Deselected (line high, closed) a select with NORMAL  *)
(* or NO_START_CS leads to Selected (line low, open); from Selected a      *)
(* deselect with NORMAL or NO_END_CS leads to Deselected or to             *)
(* SelectedHeld (line low, closed).                                        *)
Deselected(l, o) == l = 1 /\ ~o

Selected(l, o) == l = 0 /\ o

SelectedHeld(l, o) == l = 0 /\ ~o

C8_StateMachine ==
    (Built /\ N >= 1 /\ pc = Idle) =>
        /\ (Last.op = "select" /\ Last.t \in {"NORMAL", "NO_START_CS"}
                /\ Deselected(LineAt(N), OpenAt(N))) => Selected(Line, Open)
        /\ (Last.op = "deselect" /\ Last.t \in {"NORMAL", "NO_END_CS"}
                /\ Selected(LineAt(N), OpenAt(N))) =>
                (Deselected(Line, Open) \/ SelectedHeld(Line, Open))

(* C8 amended: from Deselected a select with NORMAL leads to Selected;     *)
(* from SelectedHeld a select with NORMAL or NO_START_CS leads to          *)
(* Selected; from Selected a deselect with NORMAL leads to Deselected and  *)
(* a deselect with NO_END_CS leads to SelectedHeld.                        *)
C8_StateMachineAmended ==
    (Built /\ N >= 1 /\ pc = Idle) =>
        /\ (Calls[N] = SelN /\ Deselected(LineAt(N), OpenAt(N))) =>
                Selected(Line, Open)
        /\ (Last.op = "select" /\ Last.t \in {"NORMAL", "NO_START_CS"}
                /\ SelectedHeld(LineAt(N), OpenAt(N))) => Selected(Line, Open)
        /\ (Calls[N] = DeselN /\ Selected(LineAt(N), OpenAt(N))) =>
                Deselected(Line, Open)
        /\ (Calls[N] = <<"deselect", "NO_END_CS">>
                /\ Selected(LineAt(N), OpenAt(N))) => SelectedHeld(Line, Open)

C8_Witness ==
    /\ Built
    /\ N = 3
    /\ pc = Idle
    /\ Calls[1] = SelN
    /\ Deselected(LineAt(1), OpenAt(1))
    /\ Calls[2] = <<"deselect", "NO_END_CS">>
    /\ Selected(LineAt(2), OpenAt(2))
    /\ Calls[3] = <<"select", "NO_START_CS">>
    /\ SelectedHeld(LineAt(3), OpenAt(3))
    /\ Selected(Line, Open)

(* C9: when the calls alternate select, deselect, ... with any policies,   *)
(* every select issues exactly one beginTransaction and every deselect     *)
(* exactly one endTransaction, so each endTransaction follows its own      *)
(* beginTransaction and the number of open transactions is 0 or 1.         *)
SelectsCalled == Cardinality({i \in 1..N : hist[i].op = "select"})

DeselectsCalled == Cardinality({i \in 1..N : hist[i].op = "deselect"})

\* the call in progress has not yet reached its beginTransaction / endTransaction
BeginPending == IF pc.op = "select" /\ pc.at = "entry" THEN 1 ELSE 0

EndPending == IF pc.op = "deselect" THEN 1 ELSE 0

C9_TransactionsPaired ==
    Alternating =>
        /\ nBegin["SPI"] = SelectsCalled - BeginPending
        /\ nEnd["SPI"] = DeselectsCalled - EndPending
        /\ nBegin["SPI"] - nEnd["SPI"] \in {0, 1}
        /\ Open <=> (nBegin["SPI"] - nEnd["SPI"] = 1)

C9_Witness ==
    /\ Alternating
    /\ N = 4
    /\ pc = Idle
    /\ Calls[1][2] = "NO_START_CS"
    /\ Calls[2][2] = "NO_END_CS"
    /\ Calls[3][2] = "NO_END_CS"
    /\ Calls[4][2] = "NO_START_CS"
    /\ nBegin["SPI"] = 2
    /\ nEnd["SPI"] = 2

(* C10: a select or deselect call on the ActiveLowChipSelect leaves the    *)
(* transaction flag of SPI1 as it was at the entry of the call, and a call *)
(* on the ActiveLowChipSelect1 leaves the transaction flag of SPI as it    *)
(* was, in every interleaving of the calls on the two objects.             *)
C10_ControllersIndependent ==
    N >= 1 =>
        /\ Last.dev = "cs" => txnOpen["SPI1"] = Last.open["SPI1"]
        /\ Last.dev = "cs1" => txnOpen["SPI"] = Last.open["SPI"]

C10_Witness ==
    /\ N = 3
    /\ pc = Idle
    /\ hist[1].dev = "cs1" /\ hist[1].op = "select"
    /\ hist[2].dev = "cs" /\ hist[2].op = "select"
    /\ hist[3].dev = "cs1" /\ hist[3].op = "deselect"
    /\ Last.open["SPI"]
    /\ Last.open["SPI1"]
    /\ txnOpen["SPI"]
    /\ ~txnOpen["SPI1"]

----------------------------------------------------------------------------
(* What the calls of one object give when they are run alone, in order, on *)
(* a freshly constructed object: the line level and the transaction flag   *)

CallsOf(d) == SelectSeq(hist, LAMBDA h : h.dev = d)

RECURSIVE LineAlone(_, _)
LineAlone(c, k) ==
    IF k = 0 THEN 1
    ELSE IF c[k].op = "select"
         THEN IF c[k].t = "NO_START_CS" THEN LineAlone(c, k - 1) ELSE 0
         ELSE IF c[k].t = "NO_END_CS" THEN LineAlone(c, k - 1) ELSE 1

OpenAlone(c, k) == k > 0 /\ c[k].op = "select"

TwoLines ==
    /\ DOMAIN pin_ = {"cs", "cs_b"}
    /\ pin_["cs"] # pin_["cs_b"]

(* C11 as stated: after any interleaving of the calls on two               *)
(* ActiveLowChipSelect objects with different select lines, the line level *)
(* and the transaction flag of each object are what that object's calls    *)
(* give when run alone.                                                    *)
C11_InstancesIndependent ==
    (TwoLines /\ pc = Idle) =>
        \A d \in {"cs", "cs_b"} :
            /\ level[pin_[d]] = LineAlone(CallsOf(d), Len(CallsOf(d)))
            /\ txnOpen["SPI"] = OpenAlone(CallsOf(d), Len(CallsOf(d)))

(* C11 amended: after any interleaving of the calls on two                 *)
(* ActiveLowChipSelect objects with different select lines, the line level *)
(* of each object is what that object's calls give when run alone; the     *)
(* transaction flag is the one of SPI, which both objects share, and is    *)
(* what the calls of both objects give when run in the order made.         *)
C11_LinesIndependent ==
    (TwoLines /\ pc = Idle) =>
        /\ \A d \in {"cs", "cs_b"} :
                level[pin_[d]] = LineAlone(CallsOf(d), Len(CallsOf(d)))
        /\ txnOpen["SPI"] = OpenAlone(hist, N)

C11_Witness ==
    /\ TwoLines
    /\ pc = Idle
    /\ N = 3
    /\ Calls = <<SelN, SelN, DeselN>>
    /\ hist[1].dev = "cs"
    /\ hist[2].dev = "cs_b"
    /\ hist[3].dev = "cs_b"
    /\ level[pin_["cs"]] = 0
    /\ level[pin_["cs_b"]] = 1
    /\ ~txnOpen["SPI"]

----------------------------------------------------------------------------
\* no constructor has run since the entry of the last call
NoneBuiltSince == DOMAIN pin_ = DOMAIN Last.pin_

\* the hardware is as it was at the entry of the last call
HardwareAsAtEntry ==
    /\ level = Last.level
    /\ mode = Last.mode
    /\ txnOpen = Last.open
    /\ applied = Last.applied
    /\ nBegin = Last.nBegin
    /\ nEnd = Last.nEnd
    /\ nWrite = Last.nWrite

\* the line that names an operation
TraceLine(op) ==
    IF op = "select" THEN "Debug CS: select()" ELSE "Debug CS: deselect()"

\* the calls on the DebugChipSelect that have printed their line
DebugPrinted ==
    Len(CallsOf("debug")) - (IF pc.dev = "debug" THEN 1 ELSE 0)

(* C12: the calls on a DebugChipSelect, with any policies, have printed    *)
(* exactly one line each, in call order, the i-th line naming the          *)
(* operation of the i-th call whatever its policy, and a call on it        *)
(* changes no pin and no transaction state: until the next call or         *)
(* constructor runs, the hardware is as it was at the entry of the call.   *)
C12_DebugTrace ==
    /\ Len(serial) = DebugPrinted
    /\ \A i \in 1..Len(serial) : serial[i] = TraceLine(CallsOf("debug")[i].op)
    /\ (N >= 1 /\ Last.dev = "debug" /\ NoneBuiltSince) => HardwareAsAtEntry

C12_Witness ==
    /\ N = 3
    /\ pc = Idle
    /\ hist[1].dev = "debug" /\ Calls[1] = <<"select", "NO_START_CS">>
    /\ hist[2].dev = "cs" /\ Calls[2] = SelN
    /\ hist[3].dev = "debug" /\ Calls[3] = <<"deselect", "NO_END_CS">>
    /\ serial = <<"Debug CS: select()", "Debug CS: deselect()">>
    /\ Line = 0
    /\ Open

(* C13: for every policy and from every prior state, a select or deselect  *)
(* on a DummyChipSelect leaves every pin level and direction, every        *)
(* controller's transaction state and the Serial output as they were      *)
(* (until the next call or constructor runs they are as at the entry of    *)
(* the call), and the call returns: there is no state in which it is       *)
(* stuck.                                                                  *)
C13_DummyNoEffect ==
    (N >= 1 /\ Last.dev = "dummy") =>
        /\ NoneBuiltSince => (HardwareAsAtEntry /\ pin_ = Last.pin_
                                /\ settings_ = Last.settings_)
        /\ serial = Last.serial
        /\ pc # Idle => ENABLED (DummyChipSelect_select \/ DummyChipSelect_deselect)

C13_Witness ==
    /\ N = 3
    /\ pc = Idle
    /\ hist[1].dev = "cs" /\ Calls[1] = SelN
    /\ hist[2].dev = "debug"
    /\ hist[3].dev = "dummy" /\ Calls[3] = <<"select", "NO_END_CS">>
    /\ Line = 0
    /\ Open
    /\ Len(serial) = 1

----------------------------------------------------------------------------
\* the pin of cs
Pin == pin_["cs"]

\* the collaborator calls of the last call on cs, now that it has returned:
\* b beginTransaction, e endTransaction and w digitalWriteFast calls
Issued(b, e, w) ==
    /\ nBegin = [Last.nBegin EXCEPT !["SPI"] = @ + b]
    /\ nEnd = [Last.nEnd EXCEPT !["SPI"] = @ + e]
    /\ nWrite = [Last.nWrite EXCEPT ![Pin] = @ + w]

\* the pin levels are those at the entry of the last call, with the line at v
LineDriven(v) == level = [Last.level EXCEPT ![Pin] = v]

(* C14: an ActiveLowChipSelect never rejects a call: in every reachable    *)
(* state, after two selects in a row or a deselect without a select as     *)
(* well, every select(p) and deselect(p) can be called, runs to its return *)
(* and has then made the collaborator calls of a legal sequence: one       *)
(* beginTransaction with settings_ (select) or one endTransaction          *)
(* (deselect), and the line write unless the policy suppresses it.         *)
C14_NoMisuseDetection ==
    Built =>
        /\ (pc = Idle /\ N < MaxCalls) =>
                \A t \in TransferType :
                    /\ ENABLED Call("cs", "select", t, MaxCalls)
                    /\ ENABLED Call("cs", "deselect", t, MaxCalls)
        /\ pc # Idle =>
                ENABLED (select_begin \/ select_write \/ deselect_write \/ deselect_end)
        /\ (pc = Idle /\ N >= 1 /\ Last.op = "select") =>
                /\ applied["SPI"] = settings_["cs"]
                /\ IF Last.t = "NO_START_CS"
                     THEN Issued(1, 0, 0) /\ level = Last.level
                     ELSE Issued(1, 0, 1) /\ LineDriven(0)
        /\ (pc = Idle /\ N >= 1 /\ Last.op = "deselect") =>
                /\ applied = Last.applied
                /\ IF Last.t = "NO_END_CS"
                     THEN Issued(0, 1, 0) /\ level = Last.level
                     ELSE Issued(0, 1, 1) /\ LineDriven(1)

C14_Witness ==
    /\ Built
    /\ pc = Idle
    /\ N = 4
    /\ Calls[1] = DeselN
    /\ Calls[2] = SelN
    /\ Calls[3] = <<"select", "NO_END_CS">>
    /\ Calls[4] = SelN
    /\ nBegin["SPI"] = 3
    /\ nEnd["SPI"] = 1
    /\ nWrite[Pin] = 5
    /\ Line = 0
    /\ Open

----------------------------------------------------------------------------
\* cs and cs1 are built, on different pins, and every call made on cs has
\* been repeated on cs1 and has returned
SideBySide ==
    /\ DOMAIN pin_ = {"cs", "cs1"}
    /\ pin_["cs"] # pin_["cs1"]
    /\ pc = Idle
    /\ N % 2 = 0
    /\ \A i \in 1..N : hist[i].dev = IF i % 2 = 1 THEN "cs" ELSE "cs1"
    /\ \A i \in 1..N : i % 2 = 0 => Calls[i] = Calls[i - 1]

(* C15: an ActiveLowChipSelect1 behaves as an ActiveLowChipSelect with     *)
(* SPI1 in the place of SPI: built with the same settings and given the    *)
(* same calls with the same policies, after every call the lines of the    *)
(* two are at the same level and driven equally often, and SPI1 has the    *)
(* transaction flag, the settings and the call counts of SPI.              *)
C15_SecondControllerSame ==
    SideBySide =>
        /\ level[pin_["cs"]] = level[pin_["cs1"]]
        /\ mode[pin_["cs"]] = mode[pin_["cs1"]]
        /\ nWrite[pin_["cs"]] = nWrite[pin_["cs1"]]
        /\ txnOpen["SPI1"] = txnOpen["SPI"]
        /\ applied["SPI1"] = applied["SPI"]
        /\ nBegin["SPI1"] = nBegin["SPI"]
        /\ nEnd["SPI1"] = nEnd["SPI"]

C15_Witness ==
    /\ SideBySide
    /\ N = 6
    /\ Calls[1] = SelN
    /\ Calls[3] = <<"deselect", "NO_END_CS">>
    /\ Calls[5] = <<"select", "NO_START_CS">>
    /\ level[pin_["cs1"]] = 0
    /\ txnOpen["SPI1"]
    /\ nBegin["SPI1"] = 2
    /\ nWrite[pin_["cs1"]] = 2

----------------------------------------------------------------------------
(* C16: only the constructor configures the direction of the select line   *)
(* and sets pin_ and settings_: a pin is an output exactly when it is the  *)
(* pin of a constructed object; in and after every select and deselect     *)
(* call, for every policy, pin directions, pin_ and settings_ are as at    *)
(* the entry of the call and as at the first call; and no transaction has  *)
(* been begun or ended before the first call, so not by the constructor.   *)
C16_ConstructionOnly ==
    /\ \A p \in Pins : mode[p] = "OUTPUT" <=> (Built /\ p = Pin)
    /\ N >= 1 =>
            /\ mode = Last.mode /\ mode = hist[1].mode
            /\ pin_ = Last.pin_ /\ pin_ = hist[1].pin_
            /\ settings_ = Last.settings_ /\ settings_ = hist[1].settings_
    /\ N = 0 =>
            \A c \in Controllers :
                nBegin[c] = 0 /\ nEnd[c] = 0 /\ ~txnOpen[c] /\ applied[c] = "none"

C16_Witness ==
    /\ Built
    /\ N = 4
    /\ pc = Idle
    /\ Calls = Chain
    /\ mode[Pin] = "OUTPUT"
    /\ \E p \in Pins : mode[p] = "INPUT"
    /\ nBegin["SPI"] = 2
    /\ nEnd["SPI"] = 2

----------------------------------------------------------------------------
\* the i-th call has returned
Returned(i) == i < N \/ pc = Idle

\* line level and transaction flag of cs at the return of the i-th call
LineAfter(i) == IF i < N THEN LineAt(i + 1) ELSE Line

OpenAfter(i) == IF i < N THEN OpenAt(i + 1) ELSE Open

\* the line level a call leaves, from its operation, its policy and the
\* level at its entry alone
LineEffect(op, t, l) ==
    IF op = "select"
    THEN IF t = "NO_START_CS" THEN l ELSE 0
    ELSE IF t = "NO_END_CS" THEN l ELSE 1

(* C17: an ActiveLowChipSelect keeps no history: two calls of the same     *)
(* operation with the same policy that start at the same line level leave  *)
(* the same line level and the same transaction flag, whatever calls came  *)
(* before them; the result is a function of the operation, the policy and  *)
(* the line level at the entry.                                            *)
C17_NoHistory ==
    Built =>
        /\ \A i, j \in 1..N :
                (Returned(i) /\ Returned(j) /\ Calls[i] = Calls[j]
                    /\ LineAt(i) = LineAt(j)) =>
                (LineAfter(i) = LineAfter(j) /\ OpenAfter(i) = OpenAfter(j))
        /\ \A i \in 1..N :
                Returned(i) =>
                    /\ LineAfter(i) = LineEffect(hist[i].op, hist[i].t, LineAt(i))
                    /\ OpenAfter(i) = (hist[i].op = "select")

C17_Witness ==
    /\ Built
    /\ pc = Idle
    /\ N = 4
    /\ Calls[1] = <<"select", "NO_START_CS">>
    /\ Calls[2] = SelN
    /\ Calls[3] = DeselN
    /\ Calls[4] = SelN
    /\ LineAt(2) = LineAt(4)
    /\ OpenAt(2) # OpenAt(4)
    /\ LineAfter(2) = 0
    /\ LineAfter(4) = 0
    /\ OpenAfter(2)
    /\ OpenAfter(4)

(* C18: each policy suppresses only its own edge.  select(NO_END_CS) does  *)
(* what select(NORMAL) does, from every prior state: one beginTransaction  *)
(* with settings_, then one write of the line to low.  deselect            *)
(* (NO_START_CS) does what deselect(NORMAL) does: one write of the line to *)
(* high, then one endTransaction.                                          *)
C18_OwnEdgeOnly ==
    (Built /\ N >= 1) =>
        /\ (Last.op = "select" /\ Last.t \in {"NORMAL", "NO_END_CS"}) =>
                /\ pc.at = "write" =>
                        (Issued(1, 0, 0) /\ level = Last.level /\ Open)
                /\ pc = Idle =>
                        /\ Issued(1, 0, 1)
                        /\ LineDriven(0)
                        /\ Open
                        /\ applied["SPI"] = settings_["cs"]
        /\ (Last.op = "deselect" /\ Last.t \in {"NORMAL", "NO_START_CS"}) =>
                /\ pc.at = "end" =>
                        (Issued(0, 0, 1) /\ LineDriven(1) /\ Open = OpenAt(N))
                /\ pc = Idle =>
                        /\ Issued(0, 1, 1)
                        /\ LineDriven(1)
                        /\ ~Open
                        /\ applied = Last.applied

C18_Witness ==
    /\ Built
    /\ pc = Idle
    /\ N = 2
    /\ Calls[1] = <<"select", "NO_END_CS">>
    /\ Calls[2] = <<"deselect", "NO_START_CS">>
    /\ LineAt(1) = 1
    /\ LineAt(2) = 0
    /\ OpenAt(2)
    /\ Line = 1
    /\ ~Open
    /\ nWrite[Pin] = 3

====
